---------------------------- MODULE Spec2Model ----------------------------
(***************************************************************************)
(* TopologyUpPlugin (pyats.contrib.plugins.topoup_plugin.topoup).          *)
(*                                                                         *)
(* pre_job reads the run arguments, takes one start time, fans one         *)
(* device_connect task out per testbed device through pcall, joins them    *)
(* and reduces the collected outcomes.  device_connect is the retry loop   *)
(* of one device.                                                          *)
(*                                                                         *)
(* Time is in whole seconds.  Every task runs in a process of its own and  *)
(* shares nothing with the others, so each task carries the wall-clock     *)
(* time it has reached (clock[d]).  The fork of a task and a connect call  *)
(* are either prompt (0 s) or slow (MaxStartDelay, MaxConnectTime s);      *)
(* sleep(interval) takes interval seconds.  One action is one iteration of *)
(* the retry loop.  pcall returns, or re-raises what a child raised, once  *)
(* every child has ended.                                                  *)
(* An argument value is an int (a parser default, or a value the host put  *)
(* into runtime.args) or a str (what the parser stores for a value given   *)
(* on the command line: the arguments are added without a type).           *)
(***************************************************************************)
EXTENDS Integers, Sequences, FiniteSets

VARIABLES
    args,        \* runtime.args: all_devices_up, connection_check_timeout, connection_check_interval
    ndev,        \* number of devices in runtime.testbed.devices (positions 1..ndev)
    now,         \* wall-clock time of the process that runs pre_job
    pc,          \* pre_job: "idle", "pcall", "returned", "raised"
    error,       \* the exception pre_job ended with, "none" when there is none
    start_time,  \* pre_job's start_time (line 74)
    tpc,         \* per device: position of its device_connect task, "none" before pcall
    kw_start_time, \* per device: the start_time its task received (ckwargs)
    clock,       \* per device: wall-clock time its task has reached
    attempts,    \* per device: device.connect() calls made
    fails,       \* per device: device.connect() calls that raised
    sleeps,      \* per device: sleep(interval) calls completed
    first        \* how the previous invocation of pre_job ended, pc "none" when there was none

vars == <<args, ndev, now, pc, error, start_time,
          tpc, kw_start_time, clock, attempts, fails, sleeps, first>>

---------------------------------------------------------------------------
(* Bounds of the model *)

MaxDevices == 3
MaxTimeout == 3
MaxInterval == 2
MaxConnectTime == 2
MaxStartDelay == 1

(* Program constants *)

DefaultTimeout == 120
DefaultInterval == 10

---------------------------------------------------------------------------
(* Argument values *)

IntVal(n) == [kind |-> "int", val |-> n]
StrVal(n) == [kind |-> "str", val |-> n]
Absent == [kind |-> "absent", val |-> 0]

NoneVal == [kind |-> "None", text |-> ""]
StrFlag(s) == [kind |-> "str", text |-> s]

\* argparse action="store" without type: the default when the option is
\* absent, the given text otherwise.
Store(default, given) == IF given = Absent THEN default ELSE given

FlagTexts == {"True", "False", ""}

configure_parser(flag, timeout, interval) ==
    [all_devices_up |-> flag,
     connection_check_timeout |-> Store(IntVal(DefaultTimeout), timeout),
     connection_check_interval |-> Store(IntVal(DefaultInterval), interval)]

\* Command lines: each option absent or given with a text.
ParsedArgs ==
    { configure_parser(f, t, i) :
        f \in {NoneVal} \cup {StrFlag(s) : s \in FlagTexts},
        t \in {Absent} \cup {StrVal(v) : v \in 1..MaxTimeout},
        i \in {Absent} \cup {StrVal(v) : v \in 1..MaxInterval} }

\* runtime.args filled by the host with numbers.
NumericArgs ==
    [all_devices_up : {NoneVal},
     connection_check_timeout : {IntVal(v) : v \in 1..MaxTimeout},
     connection_check_interval : {IntVal(v) : v \in 1..MaxInterval}]

\* Python truth value of the flag: None and "" are false, any other str is true.
Truthy(flag) == flag.kind = "str" /\ flag.text # ""

\* float(timeout): the number, for an int and for a numeric str alike.
Float(v) == v.val

timeout == args.connection_check_timeout
interval == args.connection_check_interval

Devices == 1..ndev

Max(S) == CHOOSE x \in S : \A y \in S : y <= x

---------------------------------------------------------------------------
(* device_connect *)

Terminal == {"True", "False", "raised"}

\* Mutant: the deadline itself still admits an attempt (<= for <).
LoopConditionInclusive(d) == (clock[d] - kw_start_time[d]) <= Float(timeout)

\* Mutant: the loop stops as soon as one more sleep would not fit.
LoopConditionEarlyStop(d) ==
    (clock[d] - kw_start_time[d]) + interval.val < Float(timeout)

\* while (time() - start_time) < float(timeout)
LoopCondition(d) == (clock[d] - kw_start_time[d]) < Float(timeout)

\* the except block evaluates timeout - time_difference for the log line and
\* then calls sleep(interval): both need numbers.
HandlerRuns == timeout.kind = "int" /\ interval.kind = "int"

TaskUnchanged ==
    UNCHANGED <<args, ndev, now, pc, error, start_time, kw_start_time, first>>

StartDelays == {0, MaxStartDelay}
ConnectTimes == {0, MaxConnectTime}

\* Mutant: the task measures its deadline from the moment it begins.
TaskStartOwnClock(d) ==
    /\ pc = "pcall" /\ tpc[d] = "forked"
    /\ \E delay \in StartDelays :
         /\ clock' = [clock EXCEPT ![d] = start_time + delay]
         /\ kw_start_time' = [kw_start_time EXCEPT ![d] = start_time + delay]
    /\ tpc' = [tpc EXCEPT ![d] = "loop"]
    /\ UNCHANGED <<attempts, fails, sleeps>>
    /\ UNCHANGED <<args, ndev, now, pc, error, start_time, first>>

\* the forked child reaches line 111
TaskStart(d) ==
    /\ pc = "pcall" /\ tpc[d] = "forked"
    /\ \E delay \in StartDelays :
         clock' = [clock EXCEPT ![d] = start_time + delay]
    /\ tpc' = [tpc EXCEPT ![d] = "loop"]
    /\ UNCHANGED <<attempts, fails, sleeps>>
    /\ TaskUnchanged

\* Mutant: a successful connect does not return, the loop goes on.
ConnectOkRetries(d) ==
    /\ tpc[d] = "loop" /\ LoopCondition(d)
    /\ \E dur \in ConnectTimes :
         clock' = [clock EXCEPT ![d] = @ + dur]
    /\ attempts' = [attempts EXCEPT ![d] = @ + 1]
    /\ UNCHANGED <<tpc, fails, sleeps>>
    /\ TaskUnchanged

\* One successful iteration, lines 113-134: device.connect() returns and
\* device_connect returns True.
ConnectOk(d) ==
    /\ tpc[d] = "loop" /\ LoopCondition(d)
    /\ \E dur \in ConnectTimes :
         clock' = [clock EXCEPT ![d] = @ + dur]
    /\ attempts' = [attempts EXCEPT ![d] = @ + 1]
    /\ tpc' = [tpc EXCEPT ![d] = "True"]
    /\ UNCHANGED <<fails, sleeps>>
    /\ TaskUnchanged

\* Mutant: the handler sleeps twice the interval.
ConnectFailSleepsTwice(d) ==
    /\ tpc[d] = "loop" /\ LoopCondition(d)
    /\ HandlerRuns
    /\ \E dur \in ConnectTimes :
         clock' = [clock EXCEPT ![d] = @ + dur + 2 * interval.val]
    /\ attempts' = [attempts EXCEPT ![d] = @ + 1]
    /\ fails' = [fails EXCEPT ![d] = @ + 1]
    /\ sleeps' = [sleeps EXCEPT ![d] = @ + 1]
    /\ tpc' = [tpc EXCEPT ![d] = "loop"]
    /\ TaskUnchanged

\* Mutant: the sleep of one task holds up every task that is in its loop.
ConnectFailBlocksOthers(d) ==
    /\ tpc[d] = "loop" /\ LoopCondition(d)
    /\ HandlerRuns
    /\ \E dur \in ConnectTimes :
         clock' = [e \in Devices |->
                     IF e = d THEN clock[e] + dur + interval.val
                     ELSE IF tpc[e] = "loop" THEN clock[e] + interval.val
                     ELSE clock[e]]
    /\ attempts' = [attempts EXCEPT ![d] = @ + 1]
    /\ fails' = [fails EXCEPT ![d] = @ + 1]
    /\ sleeps' = [sleeps EXCEPT ![d] = @ + 1]
    /\ tpc' = [tpc EXCEPT ![d] = "loop"]
    /\ TaskUnchanged

\* One failed iteration, lines 113-128: device.connect() raises, the except
\* block logs, sleeps interval seconds and continues at the loop condition.
ConnectFail(d) ==
    /\ tpc[d] = "loop" /\ LoopCondition(d)
    /\ HandlerRuns
    /\ \E dur \in ConnectTimes :
         clock' = [clock EXCEPT ![d] = @ + dur + interval.val]
    /\ attempts' = [attempts EXCEPT ![d] = @ + 1]
    /\ fails' = [fails EXCEPT ![d] = @ + 1]
    /\ sleeps' = [sleeps EXCEPT ![d] = @ + 1]
    /\ tpc' = [tpc EXCEPT ![d] = "loop"]
    /\ TaskUnchanged

\* lines 113-126 with a str timeout or interval: device.connect() raises and
\* the except block raises TypeError, which leaves device_connect.
ConnectFailRaises(d) ==
    /\ tpc[d] = "loop" /\ LoopCondition(d)
    /\ ~HandlerRuns
    /\ \E dur \in ConnectTimes :
         clock' = [clock EXCEPT ![d] = @ + dur]
    /\ attempts' = [attempts EXCEPT ![d] = @ + 1]
    /\ fails' = [fails EXCEPT ![d] = @ + 1]
    /\ tpc' = [tpc EXCEPT ![d] = "raised"]
    /\ UNCHANGED sleeps
    /\ TaskUnchanged

\* Mutant: the loop exit reports success.
ReturnFalseAsTrue(d) ==
    /\ tpc[d] = "loop" /\ ~LoopCondition(d)
    /\ tpc' = [tpc EXCEPT ![d] = "True"]
    /\ UNCHANGED <<clock, attempts, fails, sleeps>>
    /\ TaskUnchanged

\* line 136
ReturnFalse(d) ==
    /\ tpc[d] = "loop" /\ ~LoopCondition(d)
    /\ tpc' = [tpc EXCEPT ![d] = "False"]
    /\ UNCHANGED <<clock, attempts, fails, sleeps>>
    /\ TaskUnchanged

---------------------------------------------------------------------------
(* pre_job *)

JobUnchanged ==
    UNCHANGED <<args, ndev, tpc, kw_start_time, clock, attempts, fails, sleeps, first>>

\* lines 65-71
PreJobDisabled ==
    /\ pc = "idle" /\ Truthy(args.all_devices_up)
    /\ pc' = "returned"
    /\ UNCHANGED <<now, error, start_time>>
    /\ JobUnchanged

\* Mutant: the early return of the disabled plugin is missing.
PreJobStartUnguarded ==
    /\ pc = "idle"
    /\ start_time' = now
    /\ pc' = "pcall"
    /\ tpc' = [d \in Devices |-> "forked"]
    /\ kw_start_time' = [d \in Devices |-> now]
    /\ UNCHANGED <<now, error>>
    /\ UNCHANGED <<args, ndev, clock, attempts, fails, sleeps, first>>

\* lines 74-84: the timers are set and pcall forks one task per device
PreJobStart ==
    /\ pc = "idle" /\ ~Truthy(args.all_devices_up)
    /\ start_time' = now
    /\ pc' = "pcall"
    /\ tpc' = [d \in Devices |-> "forked"]
    /\ kw_start_time' = [d \in Devices |-> now]
    /\ UNCHANGED <<now, error>>
    /\ UNCHANGED <<args, ndev, clock, attempts, fails, sleeps, first>>

Joined == \A d \in Devices : tpc[d] \in Terminal
ChildRaised == \E d \in Devices : tpc[d] = "raised"

\* the results pcall returns, in the order of the devices
pcall_output == [d \in Devices |-> tpc[d] = "True"]

JoinTime == Max({clock[d] : d \in Devices} \cup {now})

\* pcall re-raises in the parent what a child raised
PcallRaises ==
    /\ pc = "pcall" /\ Joined /\ ChildRaised
    /\ pc' = "raised" /\ error' = "ChildError"
    /\ now' = JoinTime
    /\ UNCHANGED start_time
    /\ JobUnchanged

\* line 86: pcall_output[0] and pcall_output[1]
FirstIsFalse == ~pcall_output[1]
SecondMissing == pcall_output[1] /\ ndev < 2
Reduction == pcall_output[1] /\ pcall_output[2]

\* Mutant: the results are read, and the exception raised, without waiting
\* for the tasks that still run.
PreJobRaiseEarly ==
    /\ pc = "pcall" /\ ~ChildRaised
    /\ FirstIsFalse \/ (~SecondMissing /\ ~Reduction)
    /\ pc' = "raised" /\ error' = "NotAllUp"
    /\ now' = JoinTime
    /\ UNCHANGED start_time
    /\ JobUnchanged

\* lines 86-88
PreJobRaise ==
    /\ pc = "pcall" /\ Joined /\ ~ChildRaised
    /\ FirstIsFalse \/ (~SecondMissing /\ ~Reduction)
    /\ pc' = "raised" /\ error' = "NotAllUp"
    /\ now' = JoinTime
    /\ UNCHANGED start_time
    /\ JobUnchanged

\* line 86 on a one-element result: pcall_output[1] does not exist
PreJobIndexError ==
    /\ pc = "pcall" /\ Joined /\ ~ChildRaised
    /\ SecondMissing
    /\ pc' = "raised" /\ error' = "IndexError"
    /\ now' = JoinTime
    /\ UNCHANGED start_time
    /\ JobUnchanged

\* line 90
PreJobReturn ==
    /\ pc = "pcall" /\ Joined /\ ~ChildRaised
    /\ ~FirstIsFalse /\ ~SecondMissing /\ Reduction
    /\ pc' = "returned"
    /\ now' = JoinTime
    /\ UNCHANGED <<error, start_time>>
    /\ JobUnchanged

---------------------------------------------------------------------------

\* The default timeout (120 s) is explored with one device, the small
\* timeouts with every topology size.
Init ==
    /\ args \in ParsedArgs \cup NumericArgs
    /\ ndev \in 1..MaxDevices
    /\ (args.connection_check_timeout.val = DefaultTimeout => ndev = 1)
    /\ now = 0
    /\ pc = "idle"
    /\ error = "none"
    /\ start_time = 0
    /\ tpc = [d \in 1..ndev |-> "none"]
    /\ kw_start_time = [d \in 1..ndev |-> 0]
    /\ clock = [d \in 1..ndev |-> 0]
    /\ attempts = [d \in 1..ndev |-> 0]
    /\ fails = [d \in 1..ndev |-> 0]
    /\ sleeps = [d \in 1..ndev |-> 0]
    /\ first = [pc |-> "none", error |-> "none",
                tpc |-> [d \in 1..ndev |-> "none"],
                attempts |-> [d \in 1..ndev |-> 0]]

Next ==
    \/ PreJobDisabled
    \/ PreJobStart
    \/ \E d \in Devices : TaskStart(d)
    \/ \E d \in Devices : ConnectOk(d)
    \/ \E d \in Devices : ConnectFail(d)
    \/ \E d \in Devices : ConnectFailRaises(d)
    \/ \E d \in Devices : ReturnFalse(d)
    \/ PcallRaises
    \/ PreJobRaise
    \/ PreJobIndexError
    \/ PreJobReturn

Spec == Init /\ [][Next]_vars

---------------------------------------------------------------------------
(* pre_job invoked a second time *)

\* The host calls pre_job again with the same runtime: the tasks, processes
\* and locals of the first invocation are gone, runtime.args and the testbed
\* are the same objects, the wall clock goes on.
PreJobAgain ==
    /\ pc \in {"returned", "raised"} /\ first.pc = "none"
    /\ first' = [pc |-> pc, error |-> error, tpc |-> tpc, attempts |-> attempts]
    /\ pc' = "idle" /\ error' = "none"
    /\ tpc' = [d \in Devices |-> "none"]
    /\ clock' = [d \in Devices |-> 0]
    /\ attempts' = [d \in Devices |-> 0]
    /\ fails' = [d \in Devices |-> 0]
    /\ sleeps' = [d \in Devices |-> 0]
    /\ UNCHANGED <<args, ndev, now, start_time, kw_start_time>>

\* Two invocations are explored with the topologies below the largest size.
InitTwice == Init /\ ndev < MaxDevices

NextTwice == Next \/ PreJobAgain

SpecTwice == InitTwice /\ [][NextTwice]_vars

---------------------------------------------------------------------------
(* Properties *)

Finished == pc \in {"returned", "raised"}
Elapsed(d) == clock[d] - start_time
AllTrue == \A d \in Devices : tpc[d] = "True"
\* no time went into the fork or into connect calls: only the sleeps took time
Prompt(d) == Elapsed(d) = sleeps[d] * interval.val
MaxFails == Max({fails[d] : d \in Devices})

\* C1: when every task returned a value and at least one of them returned
\* False, at whatever position, pre_job ends by raising the "not all devices
\* are up" error.
C1_AnyFalseRaises ==
    (Finished /\ ~ChildRaised /\ \E d \in Devices : tpc[d] = "False")
        => (pc = "raised" /\ error = "NotAllUp")

\* C2: when every device's task returned True, for every topology size from
\* one device on, pre_job returns and raises nothing.
C2_AllTrueReturns ==
    (Finished /\ AllTrue) => (pc = "returned" /\ error = "none")

\* C3: with the all_devices_up flag set, pre_job only returns: no task is
\* forked, no connect attempt and no sleep is made, no time passes and no
\* error is raised.
C3_DisabledSkipsEverything ==
    Truthy(args.all_devices_up) =>
        /\ pc \in {"idle", "returned"}
        /\ error = "none"
        /\ now = 0
        /\ \A d \in Devices :
             tpc[d] = "none" /\ attempts[d] = 0 /\ sleeps[d] = 0 /\ clock[d] = 0

C3_Witness ==
    Truthy(args.all_devices_up) /\ pc = "returned" /\ ndev >= 2

C5_TaskNeverRaises ==
    \A d \in Devices : tpc[d] # "raised"

\* C6: a device whose first connect attempt succeeded has returned True after
\* exactly one attempt and no sleep; when that is so for every device, no
\* sleep was made at all.
C6_FirstAttemptSuccess ==
    /\ \A d \in Devices :
         (attempts[d] >= 1 /\ fails[d] = 0)
            => (tpc[d] = "True" /\ attempts[d] = 1 /\ sleeps[d] = 0)
    /\ (Finished /\ \A d \in Devices : attempts[d] >= 1 /\ fails[d] = 0)
            => \A d \in Devices : sleeps[d] = 0

C6_Witness ==
    /\ Finished /\ ndev >= 2
    /\ \A d \in Devices : tpc[d] = "True" /\ attempts[d] = 1 /\ fails[d] = 0

\* C7: every task works with the one start_time pre_job took, so a task
\* returns False only once timeout seconds have passed since that shared
\* start, however late the task itself began.
C7_SharedStartTime ==
    \A d \in Devices :
        tpc[d] # "none" =>
            /\ kw_start_time[d] = start_time
            /\ \A e \in Devices : kw_start_time[e] = kw_start_time[d]
            /\ tpc[d] = "False" => clock[d] >= start_time + Float(timeout)

\* a task that began late and found the shared deadline already passed
C7_Witness ==
    \E d \in Devices :
        tpc[d] = "False" /\ attempts[d] = 0 /\ clock[d] > start_time

\* C8: a connect attempt begins only while less than timeout seconds have
\* passed since the shared start; a task at its deadline check with the
\* deadline reached can only return False, without an attempt, and a task
\* that returned False makes no attempt any more.
C8_NoAttemptAfterDeadline ==
    [][\A d \in Devices :
         /\ attempts'[d] # attempts[d] => Elapsed(d) < Float(timeout)
         /\ (tpc[d] = "loop" /\ Elapsed(d) >= Float(timeout) /\ tpc'[d] # tpc[d])
               => (tpc'[d] = "False" /\ attempts'[d] = attempts[d])
         /\ tpc[d] = "False"
               => (tpc'[d] = "False" /\ attempts'[d] = attempts[d])]_vars

\* one task expired at its very first check, another after failed attempts
C8_Witness ==
    \E d, e \in Devices :
        /\ tpc[d] = "False" /\ attempts[d] = 0
        /\ tpc[e] = "False" /\ attempts[e] >= 1

C10_SuccessWithinTimeout ==
    (Finished /\ AllTrue /\ (\A d \in Devices : Prompt(d))
        /\ MaxFails * interval.val < Float(timeout))
    => /\ pc = "returned"
       /\ now - start_time >= MaxFails * interval.val
       /\ now - start_time < Float(timeout)

\* C11: when every device connects at its first attempt in two invocations
\* in a row, both invocations return (no error), and the second makes the
\* same number of attempts on every device as the first.
C11_TwiceSucceeds ==
    (/\ first.pc # "none" /\ Finished
     /\ \A d \in Devices :
          /\ first.tpc[d] = "True" /\ first.attempts[d] = 1
          /\ tpc[d] = "True" /\ fails[d] = 0)
    => /\ first.pc = "returned" /\ first.error = "none"
       /\ pc = "returned" /\ error = "none"
       /\ attempts = first.attempts

\* C12: once pre_job has left its entry, the connectivity checks were skipped
\* (no task forked) exactly when the all_devices_up flag was given the value
\* "True"; with the flag absent (None) or given "False" or "" they ran.
C12_DisabledExactlyWhenTrue ==
    pc # "idle" =>
        ((\A d \in Devices : tpc[d] = "none")
            <=> (args.all_devices_up.kind = "str"
                    /\ args.all_devices_up.text = "True"))

\* C13: in every task each failed connect attempt is followed by exactly one
\* sleep of interval seconds before the deadline is looked at again: a task
\* has slept as often as its connect failed, interval seconds each time.
C13_EveryFailureSleepsOnce ==
    \A d \in Devices :
        /\ sleeps[d] = fails[d]
        /\ tpc[d] # "none" => Elapsed(d) >= fails[d] * interval.val

\* C14: a task leaves its retry loop only into one of the two terminal
\* states, True (connected) or False (timed out), and both are absorbing:
\* once there, the task makes no further attempt or sleep.
C14_EndsTrueOrFalse ==
    [][\A d \in Devices :
         /\ (tpc[d] \in {"forked", "loop"} /\ tpc'[d] \notin {"forked", "loop"})
               => tpc'[d] \in {"True", "False"}
         /\ tpc[d] \in {"True", "False"}
               => /\ tpc'[d] = tpc[d]
                  /\ attempts'[d] = attempts[d]
                  /\ sleeps'[d] = sleeps[d]]_vars

\* what a task has of its own: its position, its time and its counters
TaskState(d) == <<tpc[d], clock[d], attempts[d], fails[d], sleeps[d]>>

\* C15: while the tasks run, a step of one task (an attempt, a sleep, a
\* return) changes nothing of any other task, neither its time nor its
\* attempts nor its outcome, and writes none of the shared start_time,
\* timeout and interval.
C15_TasksIsolated ==
    [][(pc = "pcall" /\ pc' = "pcall") =>
         \A d \in Devices :
            TaskState(d)' # TaskState(d) =>
                /\ \A e \in Devices \ {d} : TaskState(e)' = TaskState(e)
                /\ start_time' = start_time
                /\ kw_start_time' = kw_start_time
                /\ args' = args]_vars

\* one device failed and slept until its deadline while another connected
\* at once, at the start time
C15_Witness ==
    \E d, e \in Devices :
        /\ tpc[d] = "False" /\ sleeps[d] >= 1
        /\ tpc[e] = "True" /\ attempts[e] = 1 /\ clock[e] = start_time

\* lines 86-90 on a list of results: what pre_job does after pcall returned
\* the list out
Line86(out) ==
    IF ~out[1] THEN "NotAllUp"
    ELSE IF Len(out) < 2 THEN "IndexError"
    ELSE IF ~out[2] THEN "NotAllUp"
    ELSE "returned"

\* the orders in which the testbed can list its devices
Orders == {p \in [Devices -> Devices] : \A d \in Devices : \E e \in Devices : p[e] = d}

\* the results of the same tasks with the devices listed in the order p
Reordered(p) == [i \in Devices |-> pcall_output[p[i]]]

\* C16: the result is the AND of the outcomes as an unordered set: once
\* pre_job has returned or raised on the results of its tasks, the same
\* outcomes with the devices listed in any other order give the same
\* result, return or raise.
C16_OrderIrrelevant ==
    (Finished /\ Joined /\ ~ChildRaised /\ \A d \in Devices : tpc[d] # "none")
        => \A p \in Orders :
              (Line86(Reordered(p)) = "returned") <=> (pc = "returned")

Successes(d) == attempts[d] - fails[d]

\* C18: a task that has not returned True has had no successful connect
\* call, so every attempt it made failed; a task that returned True has had
\* exactly one, its last: a device reported connected connected once, a
\* device reported failed never.
C18_OutcomeSound ==
    \A d \in Devices :
        /\ tpc[d] = "True" => (Successes(d) = 1 /\ attempts[d] >= 1)
        /\ tpc[d] = "False" => Successes(d) = 0
        /\ tpc[d] \in {"none", "forked", "loop", "raised"} => Successes(d) = 0

\* one device connected after a failed attempt, another failed every
\* attempt until its deadline
C18_Witness ==
    \E d, e \in Devices :
        /\ tpc[d] = "True" /\ fails[d] >= 1
        /\ tpc[e] = "False" /\ fails[e] >= 1

=============================================================================
